---------------------------- MODULE Spec2Model ----------------------------
(***************************************************************************)
(* Model of vite-plugin-html-template-mpa (src/src/index.ts).              *)
(*                                                                         *)
(* Strings are sequences of tokens.  "/" , "\\" and ".html" are tokens of  *)
(* their own and a path segment ("src", "foo", "index") is one token, so   *)
(* "src/views/foo/index.html" is                                           *)
(*   <<"src","/","views","/","foo","/","index",".html">>.                  *)
(* No segment token contains another one, so a substring search on tokens  *)
(* finds what the search on characters finds.                              *)
(***************************************************************************)
EXTENDS Naturals, Integers, Sequences, FiniteSets, TLC

VARIABLES
    options,         \* the plugin's option object (index.ts:58-76)
    config,          \* the plugin's `config`: the host configuration it keeps (index.ts:78)
    isBuild,         \* module-level flag (index.ts:55)
    pageName,        \* module-level current page name (index.ts:54)
    phase,           \* where the run is in the plugin's life
    req,             \* dev server: the requests in flight, by request id
    pageData,        \* the descriptor a call of getPageData returned
    resolvedConfig,  \* the host configuration as handed to configResolved
    _output,         \* configResolved's local `_output` (index.ts:95)
    modules,         \* build: what resolveId and load did for each input
    disk,            \* the files that exist: templates in the project, documents in outDir
    bundle,          \* generateBundle: the emitted HTML documents, by bundle key
    cursor           \* generateBundle: the index of the document in hand

vars ==
    <<options, config, isBuild, pageName, phase, req, pageData, resolvedConfig,
      _output, modules, disk, bundle, cursor>>

devVars == <<req>>
dataVars == <<pageData>>
planVars == <<resolvedConfig, _output>>
buildVars == <<modules>>
bundleVars == <<bundle, cursor>>

-----------------------------------------------------------------------------
(* Bounds *)

MaxRequests == 2      \* overlapping dev requests
MaxDocs == 2          \* HTML documents of one bundle

-----------------------------------------------------------------------------
(* String primitives of the JavaScript runtime, on token sequences *)

Min(S) == CHOOSE x \in S : \A y \in S : x <= y
Max(S) == CHOOSE x \in S : \A y \in S : x >= y

\* JavaScript's undefined, as it prints and as it reads as a property key
Undefined == <<"undefined">>

\* JavaScript's undefined, where an object is held
UndefinedObject == [undefined |-> TRUE]

StartsWithAt(s, pat, i) ==
    /\ i >= 1
    /\ i + Len(pat) - 1 <= Len(s)
    /\ SubSeq(s, i, i + Len(pat) - 1) = pat

\* String.prototype.endsWith
EndsWith(s, suf) ==
    /\ Len(suf) <= Len(s)
    /\ SubSeq(s, Len(s) - Len(suf) + 1, Len(s)) = suf

\* String.prototype.includes
Includes(s, pat) == \E i \in 1..Len(s) : StartsWithAt(s, pat, i)

\* String.prototype.indexOf, 1-based; 0 when absent
IndexOf(s, pat) ==
    IF Includes(s, pat)
    THEN Min({i \in 1..Len(s) : StartsWithAt(s, pat, i)})
    ELSE 0

\* String.prototype.split with a non-empty string separator (the string and the
\* index of the separator are bound as values, so each is computed once)
RECURSIVE Split(_, _)
Split(s, sep) ==
    CHOOSE parts \in
        { IF i = 0
          THEN <<str>>
          ELSE <<SubSeq(str, 1, i - 1)>>
                   \o Split(SubSeq(str, i + Len(sep), Len(str)), sep) :
            <<str, i>> \in {<<s, IndexOf(s, sep)>>} } : TRUE

\* String.prototype.replace(pattern string, replacement): the first occurrence only
ReplaceFirst(s, pat, rep) ==
    IF ~Includes(s, pat)
    THEN s
    ELSE LET i == IndexOf(s, pat)
         IN  SubSeq(s, 1, i - 1) \o rep \o SubSeq(s, i + Len(pat), Len(s))

\* String.prototype.replace(/tok/g, rep): every occurrence of a one-token pattern
\* (the string is bound as a value, so it is computed once)
RECURSIVE ReplaceAll(_, _, _)
ReplaceAll(s, tok, rep) ==
    CHOOSE out \in
        { IF str = <<>>
          THEN <<>>
          ELSE (IF Head(str) = tok THEN rep ELSE <<Head(str)>>)
                   \o ReplaceAll(Tail(str), tok, rep) :
            str \in {s} } : TRUE

SlashIdx(p) == {i \in 1..Len(p) : p[i] = "/"}

\* path.dirname on a path that does not end in a slash
Dirname(p) ==
    IF SlashIdx(p) = {}
    THEN <<".">>
    ELSE LET k == Max(SlashIdx(p))
         IN  IF k = 1 THEN <<"/">> ELSE SubSeq(p, 1, k - 1)

\* path.basename
Basename(p) ==
    IF SlashIdx(p) = {} THEN p ELSE SubSeq(p, Max(SlashIdx(p)) + 1, Len(p))

\* vite's normalizePath: backslashes become slashes
normalizePath(p) == ReplaceAll(p, "\\", <<"/">>)

Cwd == <<"/", "proj">>

\* index.ts:19  path.resolve(process.cwd(), p)
resolve(p) ==
    IF p # <<>> /\ p[1] = "/" THEN p ELSE Cwd \o <<"/">> \o p

PREFIX == <<"src">>

PublicIndexHtml == <<"public", "/", "index", ".html">>
IndexHtml == <<"index", ".html">>

-----------------------------------------------------------------------------
(* utils (imported at index.ts:10-17) *)

\* utils.last: the last element of an array
last(arr) == arr[Len(arr)]

\* utils.pick: the listed keys the object has
pick(obj, keys) == [k \in keys \cap DOMAIN obj |-> obj[k]]

\* utils.isMpa: the host configuration's mode
isMpa(cfg) == cfg.mpa

\* utils.isPlainObject, for the values a pages option takes here (maps)
isPlainObject(val) == TRUE

-----------------------------------------------------------------------------
(* PageDescriptorResolver *)

CommonKeys == {"template", "title", "entry", "filename", "urlParams", "inject"}

\* index.ts:28-29
isEmptyObject(val) == isPlainObject(val) /\ DOMAIN val = {}

\* { ...a, ...b }
Spread(a, b) ==
    [k \in DOMAIN a \cup DOMAIN b |-> IF k \in DOMAIN b THEN b[k] ELSE a[k]]

EmptyObject == [k \in {} |-> <<>>]

\* obj?.[key], undefined read as the empty spread source
Lookup(obj, key) == IF key \in DOMAIN obj THEN obj[key] ELSE EmptyObject

\* getPageData with the spreads swapped: the page's fields are spread first
getPageDataCommonWins(opts, name) ==
    LET commonOptions == pick(opts, CommonKeys)
        isSpa == "pages" \notin DOMAIN opts \/ isEmptyObject(opts.pages)
    IN  IF isSpa
        THEN commonOptions
        ELSE Spread(Lookup(opts.pages, name), commonOptions)

\* index.ts:31-52
getPageData(opts, name) ==
    LET commonOptions == pick(opts, CommonKeys)
        isSpa == "pages" \notin DOMAIN opts \/ isEmptyObject(opts.pages)
    IN  IF isSpa
        THEN commonOptions
        ELSE Spread(commonOptions, Lookup(opts.pages, name))

\* a field of a descriptor, undefined when unset
Field(page, k) == IF k \in DOMAIN page THEN page[k] ELSE Undefined

\* JavaScript truthiness of an optional string field
Truthy(page, k) == k \in DOMAIN page /\ page[k] # <<>> /\ page[k] # Undefined


-----------------------------------------------------------------------------
(* Option objects and host configurations the runs start from *)

SrcViews == <<"src", "/", "views">>

\* index.ts:62-72, the defaults of buildCfg
DefaultBuildCfg ==
    [ moveHtmlTop |-> TRUE, moveHtmlDirTop |-> FALSE, buildPrefixName |-> <<>>,
      htmlHash |-> FALSE, buildAssetDirName |-> <<>>, buildChunkDirName |-> <<>>,
      buildEntryDirName |-> <<>>, htmlPrefixSearchValue |-> <<>>,
      htmlPrefixReplaceValue |-> <<>> ]

\* index.ts:58-76, the defaults the user's options are spread over
DefaultOptions ==
    [ pagesDir |-> SrcViews, pages |-> EmptyObject, jumpTarget |-> <<"_self">>,
      buildCfg |-> DefaultBuildCfg, minify |-> TRUE, mpaAutoAddMainTs |-> TRUE,
      onlyUseEjsAndMinify |-> FALSE ]

FooTemplate == <<"tpl", "/", "foo", ".html">>
SiteTemplate == <<"tpl", "/", "site", ".html">>

PagesFoo == (<<"foo">> :> [title |-> <<"Foo">>])

PagesFooBar ==
    (<<"foo">> :> [title |-> <<"Foo">>, template |-> FooTemplate])
        @@ (<<"bar">> :> [title |-> <<"Bar">>, entry |-> <<"bar", ".ts">>])

\* the user options of the runs: { ...defaults, ...userOptions }
UserOptions ==
    { EmptyObject,
      [pages |-> PagesFoo, title |-> <<"Site">>],
      [pages |-> PagesFooBar, title |-> <<"Site">>, template |-> SiteTemplate],
      [pages |-> PagesFoo, pagesDir |-> <<"pages">>] }

OptionObjects ==
    { Spread(Spread(DefaultOptions, u), [onlyUseEjsAndMinify |-> o]) :
        u \in UserOptions, o \in BOOLEAN }

\* the host's input map for pages under a pages directory
InputOf(pagesDir, names) ==
    [n \in names |-> Cwd \o <<"/">> \o pagesDir \o <<"/">> \o n \o <<"/">> \o IndexHtml]

\* the host configuration: its mode and its rollupOptions.input and output
HostConfig(mpa, input) == [mpa |-> mpa, input |-> input, outDir |-> <<"dist">>]

-----------------------------------------------------------------------------
(* Dev server: PageNameResolver and the request middleware *)

\* index.ts:180  url.match(new RegExp(`${pagesDir}/(.*)/`))?.[1]
\* the leftmost match, its group greedy up to the last slash; <<>> when no match
MatchPagesDir(url, pagesDir) ==
    LET pat == pagesDir \o <<"/">>
        closers(i) == {j \in (i + Len(pat))..Len(url) : url[j] = "/"}
        starts == {i \in 1..Len(url) : StartsWithAt(url, pat, i) /\ closers(i) # {}}
    IN  IF starts = {}
        THEN <<>>
        ELSE LET i == Min(starts)
             IN  SubSeq(url, i + Len(pat), Max(closers(i)) - 1)

\* DevPageName without index.ts:173: the pattern is matched against the request
\* path alone, without the pages directory in front
DevPageNameOfRequestPath(pagesDir, originalUrl) ==
    IF originalUrl = <<"/">>
    THEN <<"index">>
    ELSE LET m == MatchPagesDir(originalUrl, pagesDir)
         IN  IF m = <<>> THEN <<"index">> ELSE m

\* index.ts:173-182
DevPageName(pagesDir, originalUrl) ==
    LET url == pagesDir \o originalUrl
    IN  IF url = <<"/">>
        THEN <<"index">>
        ELSE LET m == MatchPagesDir(url, pagesDir)
             IN  IF m = <<>> THEN <<"index">> ELSE m

\* index.ts:189-195
DevTemplatePath(opts, cfg, name, page) ==
    IF opts.onlyUseEjsAndMinify
    THEN IF "input" \in DOMAIN cfg /\ name \in DOMAIN cfg.input
         THEN cfg.input[name]
         ELSE Undefined
    ELSE IF Truthy(page, "template")
         THEN resolve(page.template)
         ELSE IF isMpa(cfg) THEN resolve(PublicIndexHtml) ELSE resolve(IndexHtml)

\* utils.getHtmlContent rejects when there is no template to read
getHtmlContentFails(templatePath) == templatePath = Undefined

\* the requests the dev server receives: req.url and req.originalUrl
Request(u) == [url |-> u, originalUrl |-> u]

DevRequests ==
    { Request(<<"/">>),
      Request(<<"/", "index", ".html">>),
      Request(<<"/", "foo", "/", "index", ".html">>),
      Request(<<"/", "bar", "/", "about", ".html">>),
      Request(<<"/", "foo", "/", "bar", "/", "index", ".html">>),
      Request(<<"/", "src", "/", "views", "/", "foo", "/", "index", ".html">>),
      Request(<<"/", "foo", "/", "main", ".js">>) }

IdleRequest ==
    [ pc |-> "idle", url |-> <<>>, originalUrl |-> <<>>, pageName |-> Undefined,
      page |-> EmptyObject, templatePath |-> Undefined, hookPageName |-> Undefined,
      tagsOf |-> Undefined ]

RequestIds == 1..MaxRequests

DevInit ==
    /\ options \in OptionObjects
    /\ \E mpa \in BOOLEAN :
          config = HostConfig(mpa, InputOf(options.pagesDir, {<<"foo">>, <<"bar">>}))
    /\ isBuild = FALSE
    /\ pageName = Undefined
    /\ req = [r \in RequestIds |-> IdleRequest]
    /\ phase = "serve"
    /\ pageData = EmptyObject
    /\ resolvedConfig = UndefinedObject
    /\ _output = UndefinedObject
    /\ modules = EmptyObject
    /\ disk = {}
    /\ bundle = EmptyObject
    /\ cursor = 0

\* index.ts:168-216  the middleware, up to its first await
Middleware(r) ==
    /\ phase = "serve"
    /\ req[r].pc = "idle"
    /\ \E q \in DevRequests :
          IF ~EndsWith(q.url, <<".html">>) /\ q.url # <<"/">>
          THEN /\ req' = [req EXCEPT ![r] =
                    [IdleRequest EXCEPT !.pc = "next", !.url = q.url,
                                        !.originalUrl = q.originalUrl]]
               /\ UNCHANGED pageName
          ELSE LET name == DevPageName(options.pagesDir, q.originalUrl)
                   page == getPageData(options, name)
               IN  /\ pageName' = name
                   /\ req' = [req EXCEPT ![r] =
                        [IdleRequest EXCEPT
                            !.pc = "render", !.url = q.url,
                            !.originalUrl = q.originalUrl,
                            !.pageName = name, !.page = page,
                            !.templatePath = DevTemplatePath(options, config, name, page)]]
    /\ UNCHANGED <<options, config, isBuild, phase, dataVars, planVars, buildVars, disk, bundleVars>>

\* index.ts:197-222  getHtmlContent settles; the host's transform is called
RenderSettles(r) ==
    /\ phase = "serve"
    /\ req[r].pc = "render"
    /\ req' = [req EXCEPT ![r].pc =
                  IF getHtmlContentFails(req[r].templatePath) THEN "failed" ELSE "transform"]
    /\ UNCHANGED <<options, config, isBuild, pageName, phase>>
    /\ UNCHANGED <<dataVars, planVars, buildVars, disk, bundleVars>>

\* index.ts:329-335  the host runs the plugin's transformIndexHtml hook for r
TransformIndexHtml(r) ==
    /\ phase = "serve"
    /\ req[r].pc = "transform"
    /\ req' = [req EXCEPT ![r].pc = "hooked",
                          ![r].hookPageName = pageName,
                          ![r].tagsOf = Field(getPageData(options, pageName), "inject")]
    /\ UNCHANGED <<options, config, isBuild, pageName, phase>>
    /\ UNCHANGED <<dataVars, planVars, buildVars, disk, bundleVars>>

\* index.ts:224  res.end(content)
ResEnd(r) ==
    /\ phase = "serve"
    /\ req[r].pc = "hooked"
    /\ req' = [req EXCEPT ![r].pc = "done"]
    /\ UNCHANGED <<options, config, isBuild, pageName, phase>>
    /\ UNCHANGED <<dataVars, planVars, buildVars, disk, bundleVars>>

DevNext ==
    \E r \in RequestIds :
        \/ Middleware(r)
        \/ RenderSettles(r)
        \/ TransformIndexHtml(r)
        \/ ResEnd(r)

SpecDev == DevInit /\ [][DevNext]_vars

-----------------------------------------------------------------------------
(* Claims about the dev server *)

Handled(r) == req[r].pc \in {"render", "transform", "hooked", "done", "failed"}

\* a path "<prefix>/<segment>/<file>.html" with one segment between the slashes
IsPageFileUnder(path, prefix) ==
    /\ Len(path) = Len(prefix) + 5
    /\ SubSeq(path, 1, Len(prefix)) = prefix
    /\ path[Len(prefix) + 1] = "/"
    /\ path[Len(prefix) + 2] \notin {"/", "\\", ".html"}
    /\ path[Len(prefix) + 3] = "/"
    /\ path[Len(prefix) + 4] \notin {"/", "\\", ".html"}
    /\ path[Len(prefix) + 5] = ".html"

SegmentAfter(path, prefix) == <<path[Len(prefix) + 2]>>

\* C1: the page name the transformIndexHtml hook reads for a request is the page
\* name that request's own middleware wrote, whatever other requests did meanwhile.
C1_HookReadsOwnPageName ==
    \A r \in RequestIds :
        req[r].pc \in {"hooked", "done"} => req[r].hookPageName = req[r].pageName

\* C2 as stated: a request path "/<pagesDir>/foo/bar.html" resolves to page name
\* "foo" and to the title the pages map gives foo.
C2_PagesDirRequestPathYieldsSegment ==
    \A r \in RequestIds :
        LET prefix == <<"/">> \o options.pagesDir
            name == SegmentAfter(req[r].originalUrl, prefix)
        IN  Handled(r) /\ IsPageFileUnder(req[r].originalUrl, prefix)
                => /\ req[r].pageName = name
                   /\ (name \in DOMAIN options.pages /\ "title" \in DOMAIN options.pages[name])
                        => Field(req[r].page, "title") = options.pages[name].title

\* C2 as amended: a request path "/foo/bar.html", which the middleware reads
\* below the pages directory as "<pagesDir>/foo/bar.html", resolves to page name
\* "foo" and to the title the pages map gives foo.
C2_RequestPathYieldsSegment ==
    \A r \in RequestIds :
        LET name == SegmentAfter(req[r].originalUrl, <<>>)
        IN  Handled(r) /\ IsPageFileUnder(req[r].originalUrl, <<>>)
                => /\ req[r].pageName = name
                   /\ (name \in DOMAIN options.pages /\ "title" \in DOMAIN options.pages[name])
                        => Field(req[r].page, "title") = options.pages[name].title

C2_Witness ==
    \E r \in RequestIds :
        /\ req[r].pc = "done"
        /\ req[r].originalUrl = <<"/", "foo", "/", "index", ".html">>
        /\ req[r].pageName = <<"foo">>
        /\ Field(req[r].page, "title") = <<"Foo">>

-----------------------------------------------------------------------------
(* PageDescriptorResolver on its own: getPageData applied to an option object *)

\* a value that tells where it was configured: globally or for a page
ValueOf(origin, key) == <<origin, key>>

FieldsOf(origin, keys) == [k \in keys |-> ValueOf(origin, k)]

Without(obj, key) == [k \in DOMAIN obj \ {key} |-> obj[k]]

\* the fields a page of the runs overrides
OverrideKeys ==
    { {}, {"title"}, {"title", "template", "inject"}, CommonKeys \cup {"extra"} }

PagesMaps ==
    { EmptyObject }
        \cup { (<<"foo">> :> FieldsOf("foo", a)) : a \in OverrideKeys }
        \cup { (<<"foo">> :> FieldsOf("foo", a)) @@ (<<"bar">> :> FieldsOf("bar", b)) :
                 a \in OverrideKeys, b \in OverrideKeys }

\* option objects with and without a pages map
DataOptions ==
    LET globals == { FieldsOf("global", g) : g \in SUBSET CommonKeys }
    IN  { Spread(Without(DefaultOptions, "pages"), g) : g \in globals }
            \cup { Spread(Spread(DefaultOptions, g), [pages |-> m]) :
                     g \in globals, m \in PagesMaps }

PageNames == { <<"foo">>, <<"bar">>, <<"baz">>, Undefined }

DataInit ==
    /\ options \in DataOptions
    /\ pageName \in PageNames
    /\ pageData = EmptyObject
    /\ phase = "resolve"
    /\ config = UndefinedObject
    /\ isBuild = FALSE
    /\ req = [r \in RequestIds |-> IdleRequest]
    /\ resolvedConfig = UndefinedObject
    /\ _output = UndefinedObject
    /\ modules = EmptyObject
    /\ disk = {}
    /\ bundle = EmptyObject
    /\ cursor = 0

\* index.ts:184, 290, 330  const page = getPageData(options, pageName)
ResolveDescriptor ==
    /\ phase = "resolve"
    /\ pageData' = getPageData(options, pageName)
    /\ phase' = "resolved"
    /\ UNCHANGED <<options, config, isBuild, pageName>>
    /\ UNCHANGED <<devVars, planVars, buildVars, disk, bundleVars>>

DataNext == ResolveDescriptor

SpecData == DataInit /\ [][DataNext]_vars

\* C3: every common field of the descriptor is the page's own value when the
\* page sets it and the global value otherwise; a page the map does not hold, and
\* every page in SPA mode, gets exactly the global common fields; no value comes
\* from another page.
C3_DescriptorIsPageOverGlobal ==
    phase = "resolved" =>
        LET isSpa == "pages" \notin DOMAIN options \/ DOMAIN options.pages = {}
            own == IF ~isSpa /\ pageName \in DOMAIN options.pages
                   THEN options.pages[pageName]
                   ELSE EmptyObject
        IN  /\ \A k \in CommonKeys :
                  Field(pageData, k) = IF k \in DOMAIN own THEN own[k] ELSE Field(options, k)
            /\ DOMAIN own = {} =>
                  /\ DOMAIN pageData = CommonKeys \cap DOMAIN options
                  /\ \A k \in DOMAIN pageData : pageData[k] = options[k]
            /\ \A k \in DOMAIN pageData :
                  pageData[k][1] \in {"global"} \cup {pageName[i] : i \in 1..Len(pageName)}

C3_Witness ==
    /\ phase = "resolved"
    /\ pageName = <<"foo">>
    /\ "pages" \in DOMAIN options
    /\ DOMAIN options.pages = {<<"foo">>, <<"bar">>}
    /\ DOMAIN options.pages[<<"foo">>] = {"title"}
    /\ "template" \in DOMAIN options.pages[<<"bar">>]
    /\ {"title", "template"} \subseteq DOMAIN options
    /\ pageData.title = ValueOf("foo", "title")
    /\ pageData.template = ValueOf("global", "template")

-----------------------------------------------------------------------------
(* OutputNamingPlanner: the config and configResolved hooks *)

\* the three output patterns: field, buildCfg's directory option, extension
Categories ==
    { [field |-> "assetFileNames", dirOption |-> "buildAssetDirName", ext |-> ".[ext]"],
      [field |-> "chunkFileNames", dirOption |-> "buildChunkDirName", ext |-> ".js"],
      [field |-> "entryFileNames", dirOption |-> "buildEntryDirName", ext |-> ".js"] }

\* index.ts:109-111  `${assetDir}/[name].js`, `${assetDir}/[name].[ext]`
FixedPattern(assetDir, ext) == assetDir \o <<"/", "[name]", ext>>

\* index.ts:108-112
BuildAssets(assetDir) ==
    [c \in {"entryFileNames", "chunkFileNames", "assetFileNames"} |->
        FixedPattern(assetDir, IF c = "assetFileNames" THEN ".[ext]" ELSE ".js")]

\* index.ts:128-146  `${assetDir}/${dir}/[name].[ext]` and `.../[name]-[hash].[ext]`
DirPattern(assetDir, dir, hashed, ext) ==
    assetDir \o <<"/">> \o dir \o <<"/", "[name]">>
        \o (IF hashed THEN <<"-", "[hash]">> ELSE <<>>) \o <<ext>>

\* UsesHashedForm with index.ts:127 copied to the other categories unchanged:
\* every category looks at the assets pattern
UsesHashedFormOfAssets(htmlHash, out, field) ==
    ~(htmlHash \/ ~Includes(Field(out, "assetFileNames"), <<"[hash]">>))

\* index.ts:127, 135, 143  the else branch is taken: the hashed form
UsesHashedForm(htmlHash, out, field) ==
    ~(htmlHash \/ ~Includes(Field(out, field), <<"[hash]">>))

\* index.ts:126-148  one category's step on _output
ApplyCategory(out, b, assetDir, c) ==
    IF b[c.dirOption] = <<>>
    THEN out
    ELSE Spread(out, c.field :>
            DirPattern(assetDir, b[c.dirOption], UsesHashedForm(b.htmlHash, out, c.field), c.ext))

CategoryOf(field) == CHOOSE c \in Categories : c.field = field

\* index.ts:97-105  the input keys with the prefix in front
PrefixKeys(input, prefix) ==
    [k2 \in {prefix \o k : k \in DOMAIN input} |->
        input[CHOOSE k \in DOMAIN input : prefix \o k = k2]]

\* { ...obj } of an object or of undefined
SpreadOf(obj) == IF obj = UndefinedObject THEN EmptyObject ELSE obj

\* obj.key = value
With(obj, key, value) == Spread(obj, key :> value)

\* index.ts:84-165  the handler's effect: whether it threw, the host
\* configuration as it leaves it, and its local _output.  An undefined
\* rollupOptions.input or rollupOptions.output is a key the configuration lacks.
configResolvedResult(opts, build, rc) ==
    LET b == opts.buildCfg
        assetDir == IF rc.assetsDir = <<>> THEN <<"assets">> ELSE rc.assetsDir
        hasOutput == "output" \in DOMAIN rc
    IN  IF ~opts.onlyUseEjsAndMinify /\ isMpa(rc)
        THEN LET rc1 ==
                     IF b.buildPrefixName # <<>>
                     THEN With(rc, "input",
                               PrefixKeys(rc.input, IF build THEN b.buildPrefixName ELSE <<>>))
                     ELSE rc
                 rc2 ==
                     IF b.htmlHash
                     THEN With(rc1, "output",
                               Spread(IF hasOutput THEN rc.output ELSE EmptyObject,
                                      BuildAssets(assetDir)))
                     ELSE rc1
                 anyDir == \E c \in Categories : b[c.dirOption] # <<>>
             IN  IF ~hasOutput /\ anyDir
                 THEN \* String(_output.assetFileNames) of undefined: TypeError
                      [threw |-> TRUE, rc |-> rc2, out |-> UndefinedObject]
                 ELSE LET out1 ==
                              IF ~hasOutput
                              THEN UndefinedObject
                              ELSE ApplyCategory(
                                     ApplyCategory(
                                       ApplyCategory(rc.output, b, assetDir,
                                                     CategoryOf("assetFileNames")),
                                       b, assetDir, CategoryOf("chunkFileNames")),
                                     b, assetDir, CategoryOf("entryFileNames"))
                          \* without htmlHash, rollupOptions.output is the object _output
                          current ==
                              IF b.htmlHash THEN rc2.output ELSE SpreadOf(out1)
                      IN  [ threw |-> FALSE,
                            rc |-> With(rc2, "output", Spread(current, SpreadOf(out1))),
                            out |-> out1 ]
        ELSE IF ~build /\ Truthy(opts, "template") /\ "input" \notin DOMAIN rc
             THEN [ threw |-> FALSE,
                    rc |-> With(rc, "input", [main |-> rc.root \o <<"/">> \o opts.template]),
                    out |-> UndefinedObject ]
             ELSE [threw |-> FALSE, rc |-> rc, out |-> UndefinedObject]

\* the output patterns a host configuration comes with
HostPattern(ext) ==
    { <<"js", "/", "[name]", ext>>, <<"js", "/", "[name]", "-", "[hash]", ext>> }

Optional(S) == { EmptyObject } \cup S

HostOutputs ==
    { Spread(Spread(Spread(a, c), e), f) :
        a \in Optional({[assetFileNames |-> p] : p \in HostPattern(".[ext]")}),
        c \in Optional({[chunkFileNames |-> p] : p \in HostPattern(".js")}),
        e \in Optional({[entryFileNames |-> p] : p \in HostPattern(".js")}),
        f \in Optional({[format |-> <<"es">>]}) }

\* the host configuration in full: mode, input map, output, assetsDir, root, outDir
HostConfigs ==
    { Spread(Spread([mpa |-> m.mpa, assetsDir |-> a, root |-> Cwd, outDir |-> <<"dist">>],
                    m.input), o) :
        m \in { [mpa |-> TRUE, input |-> [input |-> InputOf(SrcViews, {<<"foo">>, <<"bar">>})]],
                [mpa |-> FALSE, input |-> [input |-> InputOf(SrcViews, {<<"foo">>})]],
                [mpa |-> FALSE, input |-> EmptyObject] },
        o \in Optional({[output |-> x] : x \in HostOutputs}),
        a \in {<<>>, <<"static">>} }

BuildCfgs ==
    { [DefaultBuildCfg EXCEPT !.htmlHash = h, !.buildAssetDirName = a,
                              !.buildChunkDirName = c, !.buildEntryDirName = e,
                              !.buildPrefixName = p] :
        h \in BOOLEAN, a \in {<<>>, <<"img">>}, c \in {<<>>, <<"chunk">>},
        e \in {<<>>, <<"entry">>}, p \in {<<>>, <<"app-">>} }

PlanOptions ==
    { Spread(Spread(DefaultOptions, u), [buildCfg |-> b]) :
        u \in { EmptyObject, [onlyUseEjsAndMinify |-> TRUE], [template |-> SiteTemplate] },
        b \in BuildCfgs }

PlanInit ==
    /\ options \in PlanOptions
    /\ resolvedConfig \in HostConfigs
    /\ config = UndefinedObject
    /\ _output = UndefinedObject
    /\ isBuild = FALSE
    /\ phase = "config"
    /\ pageName = Undefined
    /\ req = [r \in RequestIds |-> IdleRequest]
    /\ pageData = EmptyObject
    /\ modules = EmptyObject
    /\ disk = {}
    /\ bundle = EmptyObject
    /\ cursor = 0

\* index.ts:81-83
Config ==
    /\ phase = "config"
    /\ \E command \in {"build", "serve"} : isBuild' = (command = "build")
    /\ phase' = "configResolved"
    /\ UNCHANGED <<options, config, pageName, planVars>>
    /\ UNCHANGED <<devVars, dataVars, buildVars, disk, bundleVars>>

\* index.ts:84-165
ConfigResolved ==
    /\ phase = "configResolved"
    /\ LET res == configResolvedResult(options, isBuild, resolvedConfig)
       IN  /\ _output' = res.out
           /\ config' = IF res.threw THEN config ELSE res.rc
           /\ phase' = IF res.threw THEN "threw" ELSE "resolved"
    /\ UNCHANGED <<options, isBuild, pageName, resolvedConfig>>
    /\ UNCHANGED <<devVars, dataVars, buildVars, disk, bundleVars>>

PlanNext == Config \/ ConfigResolved

SpecPlan == PlanInit /\ [][PlanNext]_vars

-----------------------------------------------------------------------------
(* Claims about the planner *)

Planned ==
    /\ phase = "resolved"
    /\ ~options.onlyUseEjsAndMinify
    /\ isMpa(resolvedConfig)

AssetDirOf(rc) == IF rc.assetsDir = <<>> THEN <<"assets">> ELSE rc.assetsDir

\* the output object the host configuration came with
HostOutput == IF "output" \in DOMAIN resolvedConfig THEN resolvedConfig.output ELSE EmptyObject

\* C5: with htmlHash set, after planning every pattern whose category has no
\* directory name is the fixed unhashed pattern under the assets directory,
\* whatever the host's pattern was; a category with a directory name has its
\* override; every other output field keeps its value.
C5_HtmlHashInstallsFixedTriple ==
    Planned /\ options.buildCfg.htmlHash =>
        /\ \A c \in Categories :
              Field(config.output, c.field) =
                  IF options.buildCfg[c.dirOption] = <<>>
                  THEN FixedPattern(AssetDirOf(resolvedConfig), c.ext)
                  ELSE DirPattern(AssetDirOf(resolvedConfig),
                                  options.buildCfg[c.dirOption], FALSE, c.ext)
        /\ \A k \in DOMAIN HostOutput \ {c.field : c \in Categories} :
              Field(config.output, k) = HostOutput[k]

-----------------------------------------------------------------------------
(* Build: the resolveId and load hooks *)

Null == <<"null">>

\* index.ts:248  last(path.dirname(id).split('/')) || ''
ResolveIdPageName(id) == last(Split(Dirname(id), <<"/">>))

\* index.ts:228-269  the hook's return value
resolveIdReturn(opts, cfg, rawId) ==
    IF ~opts.onlyUseEjsAndMinify /\ EndsWith(rawId, <<".html">>)
    THEN LET id == normalizePath(rawId)
         IN  IF ~isMpa(cfg)
             THEN PREFIX \o <<"/">> \o Basename(id)
             ELSE IF \E key \in DOMAIN cfg.input : normalizePath(cfg.input[key]) = id
                  THEN PREFIX \o <<"/">> \o ReplaceFirst(opts.pagesDir, <<"src", "/">>, <<>>)
                           \o <<"/">> \o ResolveIdPageName(id) \o <<"/">> \o IndexHtml
                  ELSE Null
    ELSE Null

\* index.ts:229-248  the page name the hook leaves in pageName
resolveIdPageName(opts, cfg, rawId, current) ==
    IF ~opts.onlyUseEjsAndMinify /\ EndsWith(rawId, <<".html">>) /\ isMpa(cfg)
    THEN ResolveIdPageName(normalizePath(rawId))
    ELSE current

\* index.ts:285-288  last(path.dirname(id).split(options.pagesDir)).replace(/\//g, '')
LoadPageName(opts, id) == ReplaceAll(last(Split(Dirname(id), opts.pagesDir)), "/", <<>>)

\* index.ts:293-301  fs.existsSync(publicIndexHtml) reads the disk
LoadTemplatePath(p, files) ==
    IF Truthy(p, "template")
    THEN resolve(p.template)
    ELSE IF resolve(PublicIndexHtml) \in files
         THEN resolve(PublicIndexHtml)
         ELSE resolve(IndexHtml)

\* the pages of a build: one directly below the pages directory, one nested
BuildInput(pagesDir) ==
    (<<"foo">> :> Cwd \o <<"/">> \o pagesDir \o <<"/", "foo", "/">> \o IndexHtml)
        @@ (<<"b">> :> Cwd \o <<"/">> \o pagesDir \o <<"/", "a", "/", "b", "/">> \o IndexHtml)

SpaInput == (<<"main">> :> Cwd \o <<"/">> \o IndexHtml)

NewModule(id) ==
    [ pc |-> "input", id |-> id, resolvedId |-> Null, resolveName |-> Undefined,
      loadName |-> Undefined, page |-> EmptyObject, templatePath |-> Undefined ]

BuildInit ==
    /\ options \in OptionObjects
    /\ \E mpa \in BOOLEAN :
          config = HostConfig(mpa, IF mpa THEN BuildInput(options.pagesDir) ELSE SpaInput)
    /\ isBuild = TRUE
    /\ pageName = Undefined
    /\ phase = "build"
    /\ modules = [k \in DOMAIN config.input |-> NewModule(config.input[k])]
    /\ disk \in { {resolve(IndexHtml)}, {resolve(IndexHtml), resolve(PublicIndexHtml)} }
    /\ req = [r \in RequestIds |-> IdleRequest]
    /\ pageData = EmptyObject
    /\ resolvedConfig = UndefinedObject
    /\ _output = UndefinedObject
    /\ bundle = EmptyObject
    /\ cursor = 0

\* index.ts:228-269
ResolveId(k) ==
    /\ phase = "build"
    /\ modules[k].pc = "input"
    /\ pageName' = resolveIdPageName(options, config, modules[k].id, pageName)
    /\ modules' = [modules EXCEPT
                      ![k].pc = "resolved",
                      ![k].resolvedId = resolveIdReturn(options, config, modules[k].id),
                      ![k].resolveName = pageName']
    /\ UNCHANGED <<options, config, isBuild, phase, disk>>
    /\ UNCHANGED <<devVars, dataVars, planVars, bundleVars>>

\* index.ts:270-328  the host loads the id resolveId gave, or the file's own
Load(k) ==
    /\ phase = "build"
    /\ modules[k].pc = "resolved"
    /\ LET given == IF modules[k].resolvedId = Null
                    THEN modules[k].id
                    ELSE modules[k].resolvedId
       IN  IF EndsWith(given, <<".html">>)
           THEN LET id == normalizePath(given)
                    name == LoadPageName(options, id)
                    p == getPageData(options, name)
                IN  /\ pageName' = name
                    /\ modules' = [modules EXCEPT
                          ![k].pc = "loaded", ![k].loadName = name, ![k].page = p,
                          ![k].templatePath = LoadTemplatePath(p, disk)]
           ELSE /\ modules' = [modules EXCEPT ![k].pc = "skipped"]
                /\ UNCHANGED pageName
    /\ UNCHANGED <<options, config, isBuild, phase, disk>>
    /\ UNCHANGED <<devVars, dataVars, planVars, bundleVars>>

BuildNext == \E k \in DOMAIN modules : ResolveId(k) \/ Load(k)

SpecBuild == BuildInit /\ [][BuildNext]_vars

-----------------------------------------------------------------------------
(* Claims about template and page name in dev and build *)

\* the template the priority order of C7 names, for a page name and its descriptor
PriorityTemplatePath(name, p) ==
    IF options.onlyUseEjsAndMinify
    THEN IF name \in DOMAIN config.input THEN config.input[name] ELSE Undefined
    ELSE IF Truthy(p, "template")
         THEN resolve(p.template)
         ELSE IF isMpa(config)
              THEN IF resolve(PublicIndexHtml) \notin disk
                   THEN resolve(IndexHtml)
                   ELSE resolve(PublicIndexHtml)
              ELSE resolve(IndexHtml)

\* C7: the load hook picks the template by the priority order: the host's input
\* path in only-post-process mode, else the override, else in MPA mode
\* public/index.html (the root index.html when that does not exist), else the
\* root index.html.
C7_LoadFollowsPriorityOrder ==
    \A k \in DOMAIN modules :
        modules[k].pc = "loaded" =>
            modules[k].templatePath =
                PriorityTemplatePath(modules[k].loadName, modules[k].page)

\* the path of a page's directory below the pages directory, from its file's id
PagePathOf(id) ==
    LET root == Cwd \o <<"/">> \o options.pagesDir \o <<"/">>
    IN  SubSeq(id, Len(root) + 1, Len(id) - 3)

\* C8: for a page <pagesDir>/<path>/index.html the dev server's page name for
\* the request /<path>/index.html, resolveId's page name and load's page name
\* are one and the same.
C8_DevAndBuildAgreeOnPageName ==
    \A k \in DOMAIN modules :
        modules[k].pc = "loaded" /\ ~options.onlyUseEjsAndMinify /\ isMpa(config) =>
            LET dev == DevPageName(options.pagesDir,
                                   <<"/">> \o PagePathOf(modules[k].id) \o <<"/">> \o IndexHtml)
            IN  /\ modules[k].resolveName = dev
                /\ modules[k].loadName = dev

-----------------------------------------------------------------------------
(* BundlePostProcessor: generateBundle, the host's write, closeBundle *)

\* index.ts:23-26, as it is appended to a reference: `?${uniqueHash}`
UniqueHashQuery == "?uniqueHash"

\* index.ts:392-394  .replace(/\.js/g, ...).replace(/.css/g, ...): the second
\* pattern's dot is any character, so "-css" is rewritten like ".css"
hashTag(text) ==
    LET js == ReplaceAll(text, ".js", <<".js", UniqueHashQuery>>)
    IN  ReplaceAll(ReplaceAll(js, ".css", <<".css", UniqueHashQuery>>),
                   "-css", <<".css", UniqueHashQuery>>)

\* utils.minifyHtml: a text transform; here it drops the blanks
minifyHtml(text) == ReplaceAll(text, " ", <<>>)

\* index.ts:384-386
HtmlName(b, fileName) ==
    LET parts == Split(ReplaceAll(fileName, "\\", <<"/">>), <<"/">>)
    IN  b.buildPrefixName
            \o (IF Len(parts) >= 2 THEN parts[Len(parts) - 1] ELSE Undefined)

\* MinifyInput with htmlChunk.source in place of _source at index.ts:397
MinifyInputUntagged(b, source) == source

\* index.ts:389-397  _source, the text the minifier is handed
MinifyInput(b, source) == IF b.htmlHash THEN hashTag(source) ELSE source

\* index.ts:402-407
Substituted(b, text) ==
    IF b.htmlPrefixSearchValue # <<>>
    THEN ReplaceAll(text, b.htmlPrefixSearchValue[1], b.htmlPrefixReplaceValue)
    ELSE text

\* FinalFileName with the two branches of index.ts:411-415 swapped:
\* moveHtmlDirTop is looked at first
FinalFileNameDirTopFirst(b, mpa, chunk) ==
    IF mpa
    THEN IF b.moveHtmlDirTop
         THEN HtmlName(b, chunk.fileName) \o <<"/">> \o IndexHtml
         ELSE IF b.moveHtmlTop
              THEN HtmlName(b, chunk.fileName) \o <<".html">>
              ELSE chunk.fileName
    ELSE IndexHtml

\* index.ts:410-418
FinalFileName(b, mpa, chunk) ==
    IF mpa
    THEN IF b.moveHtmlTop
         THEN HtmlName(b, chunk.fileName) \o <<".html">>
         ELSE IF b.moveHtmlDirTop
              THEN HtmlName(b, chunk.fileName) \o <<"/">> \o IndexHtml
              ELSE chunk.fileName
    ELSE IndexHtml

\* index.ts:402-418  the rest of an iteration once htmlChunk.source is assigned
FinishDocument(opts, cfg, chunk, text, steps) ==
    LET b == opts.buildCfg
    IN  [chunk EXCEPT
            !.pc = "done",
            !.source = Substituted(b, text),
            !.fileName = FinalFileName(b, isMpa(cfg), chunk),
            !.steps = steps
                \o (IF b.htmlPrefixSearchValue # <<>> THEN <<"substitute">> ELSE <<>>)
                \o <<"relocate">>]

\* index.ts:378  Object.keys(bundle).filter(i => i.endsWith('.html')), as indices
HtmlFiles(chunks) ==
    LET IsHtml(i) == EndsWith(chunks[i].key, <<".html">>)
    IN  SelectSeq([i \in 1..Len(chunks) |-> i], IsHtml)

EmittedSource ==
    << "<script ", "main", ".js", ">", " ", "<link ", "site", ".css", ">", " ",
       "app", "-css", " ", "/static/", "logo" >>

Chunk(key, source) ==
    [ key |-> key, fileName |-> key, emitted |-> source, source |-> source,
      minifyInput |-> <<>>, steps |-> <<>>, pc |-> "emitted" ]

\* the documents a host emits: pages, a page named index, a Windows path, a
\* document at the output root
EmittedKeys ==
    << <<"src", "/", "views", "/", "foo", "/", "index", ".html">>,
       <<"src", "/", "views", "/", "index", "/", "index", ".html">>,
       <<"src", "\\", "views", "\\", "bar", "\\", "index", ".html">>,
       <<"src", "/", "index", ".html">>,
       <<"index", ".html">> >>

ScriptChunk == Chunk(<<"assets", "/", "main", ".js">>, <<"import", " ", "x">>)

Bundles ==
    { LET Picked(i) == i \in S
      IN  <<ScriptChunk>>
            \o [j \in 1..Cardinality(S) |->
                  Chunk(EmittedKeys[SelectSeq([i \in 1..Len(EmittedKeys) |-> i], Picked)[j]],
                        EmittedSource)] :
        S \in {T \in SUBSET (1..Len(EmittedKeys)) : Cardinality(T) \in 1..MaxDocs} }

BundleCfgs ==
    { [DefaultBuildCfg EXCEPT !.htmlHash = h, !.moveHtmlTop = t, !.moveHtmlDirTop = d,
                              !.buildPrefixName = p,
                              !.htmlPrefixSearchValue = sr[1],
                              !.htmlPrefixReplaceValue = sr[2]] :
        h \in BOOLEAN, t \in BOOLEAN, d \in BOOLEAN, p \in {<<>>, <<"app-">>},
        sr \in { <<<<>>, <<>>>>, <<<<" ">>, <<"_">>>>, <<<<"/static/">>, <<"/cdn/">>>> } }

BundleInit ==
    /\ \E b \in BundleCfgs, m \in BOOLEAN :
          options = Spread(DefaultOptions, [buildCfg |-> b, minify |-> m])
    /\ \E mpa \in BOOLEAN : config = HostConfig(mpa, BuildInput(SrcViews))
    /\ bundle \in Bundles
    /\ cursor = 0
    /\ disk = {}
    /\ phase = "emitted"
    /\ isBuild = TRUE
    /\ pageName = Undefined
    /\ req = [r \in RequestIds |-> IdleRequest]
    /\ pageData = EmptyObject
    /\ resolvedConfig = UndefinedObject
    /\ _output = UndefinedObject
    /\ modules = EmptyObject

\* the loop's next position: the following document, or the handler returns
Advance ==
    /\ cursor' = cursor + 1
    /\ phase' = IF cursor + 1 > Len(HtmlFiles(bundle)) THEN "generated" ELSE phase

\* index.ts:377-378
GenerateBundle ==
    /\ phase = "emitted"
    /\ phase' = "generating"
    /\ cursor' = 1
    /\ UNCHANGED <<options, config, isBuild, pageName, bundle, disk>>
    /\ UNCHANGED <<devVars, dataVars, planVars, buildVars>>

\* index.ts:380-419  one iteration, up to the await of minifyHtml when there is one
ProcessDocument ==
    /\ phase = "generating"
    /\ cursor <= Len(HtmlFiles(bundle))
    /\ LET i == HtmlFiles(bundle)[cursor]
           chunk == bundle[i]
           b == options.buildCfg
           text == MinifyInput(b, chunk.source)
           steps == IF b.htmlHash THEN <<"hashTag">> ELSE <<>>
       IN  /\ chunk.pc = "emitted"
           /\ IF options.minify
              THEN /\ bundle' = [bundle EXCEPT ![i].pc = "minifying",
                                               ![i].minifyInput = text,
                                               ![i].steps = steps]
                   /\ UNCHANGED <<cursor, phase>>
              ELSE /\ bundle' = [bundle EXCEPT ![i] =
                                    FinishDocument(options, config, chunk, text, steps)]
                   /\ Advance
    /\ UNCHANGED <<options, config, isBuild, pageName, disk>>
    /\ UNCHANGED <<devVars, dataVars, planVars, buildVars>>

\* index.ts:397-419  minifyHtml resolves and the iteration goes on
MinifySettles ==
    /\ phase = "generating"
    /\ cursor <= Len(HtmlFiles(bundle))
    /\ LET i == HtmlFiles(bundle)[cursor]
           chunk == bundle[i]
       IN  /\ chunk.pc = "minifying"
           /\ bundle' = [bundle EXCEPT ![i] =
                 FinishDocument(options, config, chunk, minifyHtml(chunk.minifyInput),
                                chunk.steps \o <<"minify">>)]
    /\ Advance
    /\ UNCHANGED <<options, config, isBuild, pageName, disk>>
    /\ UNCHANGED <<devVars, dataVars, planVars, buildVars>>

\* index.ts:397  minifyHtml rejects and generateBundle rejects with it
MinifyRejects ==
    /\ phase = "generating"
    /\ cursor <= Len(HtmlFiles(bundle))
    /\ bundle[HtmlFiles(bundle)[cursor]].pc = "minifying"
    /\ phase' = "failed"
    /\ UNCHANGED <<options, config, isBuild, pageName, bundle, cursor, disk>>
    /\ UNCHANGED <<devVars, dataVars, planVars, buildVars>>

OutPath(cfg, fileName) == resolve(cfg.outDir \o <<"/">> \o fileName)

\* the host writes every chunk of the bundle under outDir, by its fileName
WriteBundle ==
    /\ phase = "generated"
    /\ disk' = disk \cup {OutPath(config, bundle[i].fileName) : i \in 1..Len(bundle)}
    /\ phase' = "written"
    /\ UNCHANGED <<options, config, isBuild, pageName, bundle, cursor>>
    /\ UNCHANGED <<devVars, dataVars, planVars, buildVars>>

\* index.ts:336-343
CloseBundle ==
    /\ phase = "written"
    /\ disk' = IF isMpa(config) THEN disk \ {OutPath(config, IndexHtml)} ELSE disk
    /\ phase' = "closed"
    /\ UNCHANGED <<options, config, isBuild, pageName, bundle, cursor>>
    /\ UNCHANGED <<devVars, dataVars, planVars, buildVars>>

BundleNext ==
    \/ GenerateBundle
    \/ ProcessDocument
    \/ MinifySettles
    \/ MinifyRejects
    \/ WriteBundle
    \/ CloseBundle

SpecBundle == BundleInit /\ [][BundleNext]_vars

\* the host runs the handler it called, and a promise of minifyHtml settles
SpecBundleFair ==
    /\ SpecBundle
    /\ WF_vars(GenerateBundle)
    /\ WF_vars(ProcessDocument)
    /\ WF_vars(MinifySettles \/ MinifyRejects)

-----------------------------------------------------------------------------
(* Claims about the bundle *)

HtmlChunks == {i \in 1..Len(bundle) : EndsWith(bundle[i].key, <<".html">>)}

\* the name of the directory that directly contains a file, from its path
ContainingDirectory(path) == Basename(Dirname(normalizePath(path)))

HasContainingDirectory(path) == SlashIdx(normalizePath(path)) # {}

StepsInOrder ==
    LET b == options.buildCfg
        tagged(text) == IF b.htmlHash THEN hashTag(text) ELSE text
        minified(text) == IF options.minify THEN minifyHtml(text) ELSE text
        substituted(text) ==
            IF b.htmlPrefixSearchValue # <<>>
            THEN ReplaceAll(text, b.htmlPrefixSearchValue[1], b.htmlPrefixReplaceValue)
            ELSE text
        expected ==
            (IF b.htmlHash THEN <<"hashTag">> ELSE <<>>)
                \o (IF options.minify THEN <<"minify">> ELSE <<>>)
                \o (IF b.htmlPrefixSearchValue # <<>> THEN <<"substitute">> ELSE <<>>)
                \o <<"relocate">>
    IN  /\ \A i \in HtmlChunks :
              /\ bundle[i].pc = "minifying" =>
                    bundle[i].minifyInput = tagged(bundle[i].emitted)
              /\ bundle[i].pc = "done" =>
                    /\ bundle[i].steps = expected
                    /\ bundle[i].source = substituted(minified(tagged(bundle[i].emitted)))
        /\ phase \in {"generated", "written", "closed"} =>
              \A i \in HtmlChunks : bundle[i].pc = "done"

EveryDocumentDone == \A i \in HtmlChunks : bundle[i].pc = "done"

C10_CleanupKeepsEveryPage ==
    phase = "closed" =>
        \A i \in HtmlChunks :
            HasContainingDirectory(bundle[i].key) =>
                OutPath(config, bundle[i].fileName) \in disk

=============================================================================
